---------------------------- MODULE Spec2Model ----------------------------
(***************************************************************************)
(* A model of the large-trade dashboard: the TTL cache (cache.js), the     *)
(* HTTP client with retry (api.js), the Binance adapter (binance.js), the  *)
(* per-asset service facades and the application controller (app.js).      *)
(*                                                                         *)
(* Time is in milliseconds, amounts are whole US dollars.                  *)
(***************************************************************************)
EXTENDS Integers, Sequences, FiniteSets, TLC

VARIABLES
    now,        \* Date.now()
    storage,    \* Cache._storage: key -> [value, expiry]
    last,       \* the latest call of a Cache method or of loadData and what became of it
    act,        \* the activations of API.fetchWithRetry / Binance.* in flight, by slot
    log,        \* the errors of the fetch attempts of a direct fetchWithRetry call
    app,        \* App.state
    dom,        \* what the page shows: the visible views, the cards, the error text
    sys,        \* the page's lifecycle: init() run, the two interval timers and when
                \* each is due next, loadData cycles in flight, and how many direct
                \* calls of the adapter there have been
    net         \* the exchange, per pair: "up", "down" or "flaky" (up or down per request)

vars == <<now, storage, last, act, log, app, dom, sys, net>>

netVars == <<act, log, net>>
appVars == <<app, dom, sys>>

---------------------------------------------------------------------------
(* JavaScript values, as far as the program tells them apart. *)

Num(n) == [t |-> "num", n |-> n, l |-> <<>>]
NaN == [t |-> "nan", n |-> 0, l |-> <<>>]
Null == [t |-> "null", n |-> 0, l |-> <<>>]
Arr(l) == [t |-> "list", n |-> 0, l |-> l]

\* the test that takes an empty array for no value
TruthyUnlessEmpty(v) == (v.t = "list" /\ v.l # <<>>) \/ (v.t = "num" /\ v.n # 0)

\* if (v): null, undefined, NaN and 0 are falsy; every array is truthy
Truthy(v) == v.t = "list" \/ (v.t = "num" /\ v.n # 0)

---------------------------------------------------------------------------
(* Cache (src/unnamed/part_000, lines 6-95) *)

DefaultTTL == 300000

NoStats == <<0, 0, 0>>

\* a direct call of a Cache method: what was called and what it returned
Called(op, key, ret, stats) == [op |-> op, key |-> key, ret |-> ret, stats |-> stats]

HasKey(st, key) == key \in DOMAIN st

\* this._storage[key] = {value, expiry}
Put(st, key, entry) == [k \in DOMAIN st \cup {key} |-> IF k = key THEN entry ELSE st[k]]

\* delete this._storage[key]
Remove(st, key) == [k \in DOMAIN st \ {key} |-> st[k]]

EmptyStorage == [k \in {} |-> 0]

\* a set that leaves an entry that is already there as it is
SetUnlessPresent(st, key, value, ttl, t) ==
    IF HasKey(st, key) THEN st ELSE Put(st, key, [value |-> value, expiry |-> t + ttl])

Cache_set(st, key, value, ttl, t) == Put(st, key, [value |-> value, expiry |-> t + ttl])

\* set(key, value): ttl = this._defaultTTL
Cache_setDefault(st, key, value, t) == Cache_set(st, key, value, DefaultTTL, t)

\* the expiry test with the expiry instant itself counted as expired
ExpiredAtExpiry(item, t) == t >= item.expiry

\* if (Date.now() > item.expiry)
Expired(item, t) == t > item.expiry

\* a get that gives the entry it reads a new lease of life
GetSliding(st, key, t) ==
    IF ~HasKey(st, key) THEN [ret |-> Null, storage |-> st]
    ELSE IF Expired(st[key], t) THEN [ret |-> Null, storage |-> Remove(st, key)]
    ELSE [ret |-> st[key].value,
          storage |-> Put(st, key, [value |-> st[key].value, expiry |-> t + DefaultTTL])]

\* returns the value and the storage the call leaves
Cache_get(st, key, t) ==
    IF ~HasKey(st, key) THEN [ret |-> Null, storage |-> st]
    ELSE IF Expired(st[key], t) THEN [ret |-> Null, storage |-> Remove(st, key)]
    ELSE [ret |-> st[key].value, storage |-> st]

\* a delete that takes every entry with it
DeleteAll(st, key) == EmptyStorage

Cache_delete(st, key) == Remove(st, key)

\* a clear that removes nothing
ClearNothing(st) == st

\* this._storage = {}
Cache_clear(st) == EmptyStorage

Cache_has(st, key, t) ==
    LET r == Cache_get(st, key, t)
    IN  [ret |-> r.ret # Null, storage |-> r.storage]

\* the statistics with an entry counted as expired at its expiry instant
StatsExpiredAtExpiry(st, t) ==
    LET expired == {k \in DOMAIN st : t >= st[k].expiry}
    IN  <<Cardinality(DOMAIN st), Cardinality(DOMAIN st \ expired), Cardinality(expired)>>

Cache_getStats(st, t) ==
    LET expired == {k \in DOMAIN st : t > st[k].expiry}
    IN  <<Cardinality(DOMAIN st), Cardinality(DOMAIN st \ expired), Cardinality(expired)>>


---------------------------------------------------------------------------
(* API (src/assets/js/api.js): fetch with a timeout, fetchWithRetry.       *)
(*                                                                         *)
(* An activation is one call of API.fetchWithRetry, Binance.getPrice or    *)
(* Binance.getLargeTransactions, suspended at an await:                    *)
(*   pc = "fetch"  awaiting fetch(url)          (api.js line 25)           *)
(*   pc = "json"   awaiting response.json()     (api.js line 36)           *)
(*   pc = "delay"  awaiting this.delay(...)     (api.js line 65)           *)
(*   pc = "done"   the promise has settled                                 *)
(* The browser's timers and the network are the environment: the abort     *)
(* timer may fire at any moment while it is armed.                         *)

RetryAttempts == 3

Slots == 1..3

Idle ==
    [fn |-> "none", chain |-> "", limit |-> 0, pc |-> "idle", req |-> "",
     attempts |-> 0, timer |-> FALSE, held |-> Null, settled |-> "none",
     ret |-> Null, err |-> "", fetches |-> 0, delays |-> 0, oks |-> 0, arg |-> 0,
     console |-> <<>>]

NoActivations == [s \in Slots |-> Idle]

\* API.fetch up to its first await: the abort timer is armed, the request is sent
API_fetch(a) == [a EXCEPT !.pc = "fetch", !.timer = TRUE, !.fetches = @ + 1]

\* API.fetchWithRetry(url, options, attempts) up to its first await
API_fetchWithRetry(a, attempts) == API_fetch([a EXCEPT !.attempts = attempts])

\* giving up one attempt early
GiveUpEarly(attempts) == attempts <= 2

\* giving up only when the count is exactly one
GiveUpAtOne(attempts) == attempts = 1

\* if (attempts <= 1) throw error
GiveUp(attempts) == attempts <= 1

\* the promise of a direct fetchWithRetry call settles
Fulfilled(a, v) == [a EXCEPT !.pc = "done", !.timer = FALSE, !.settled = "fulfilled", !.ret = v]
Rejected(a, e) == [a EXCEPT !.pc = "done", !.timer = FALSE, !.settled = "rejected", !.err = e]

\* await this.delay(this.config.retryDelay)
API_delay(a) == [a EXCEPT !.pc = "delay", !.timer = FALSE, !.delays = @ + 1]

\* the retry that does not count the attempt it follows
RetrySameAttempts(a) == API_fetchWithRetry(a, a.attempts)

\* return this.fetchWithRetry(url, options, attempts - 1), once the delay is over
Retry(a) == API_fetchWithRetry(a, a.attempts - 1)

ErrTimeout == "Timeout"
ErrNetwork == "TypeError"
ErrParse == "SyntaxError"
HttpStatuses == {404, 500}
ErrHttp(status) == "HTTP " \o ToString(status)

---------------------------------------------------------------------------
(* JSON as the exchange sends it: a number is a decimal string.            *)

Str(chars) == [t |-> "str", s |-> chars]
Missing == [t |-> "undef", s |-> <<>>]

DigitChars == <<"0", "1", "2", "3", "4", "5", "6", "7", "8", "9">>

IsDigit(c) == \E d \in 1..10 : DigitChars[d] = c

DigitOf(c) == (CHOOSE d \in 1..10 : DigitChars[d] = c) - 1

\* the decimal text of a natural number
RECURSIVE DecimalText(_)
DecimalText(n) ==
    IF n < 10 THEN <<DigitChars[n + 1]>>
    ELSE Append(DecimalText(n \div 10), DigitChars[(n % 10) + 1])

\* the value of the longest prefix of s[i..] that is a run of digits, or -1
RECURSIVE DigitRun(_, _, _)
DigitRun(s, i, acc) ==
    IF i > Len(s) \/ ~IsDigit(s[i]) THEN acc
    ELSE DigitRun(s, i + 1, (IF acc < 0 THEN 0 ELSE acc * 10) + DigitOf(s[i]))

\* parseFloat: the number the text starts with; NaN for undefined, null or
\* a text that starts with no number (whole numbers only)
parseFloat(f) ==
    IF f.t # "str" THEN NaN
    ELSE LET v == DigitRun(f.s, 1, -1) IN IF v < 0 THEN NaN ELSE Num(v)

\* a < b on JavaScript numbers: false whenever a side is NaN
Less(a, b) == a.t = "num" /\ b.t = "num" /\ a.n < b.n

RawObject(id, price, qty, quoteQty, time, isBuyerMaker) ==
    [id |-> id, price |-> price, qty |-> qty, quoteQty |-> quoteQty, time |-> time,
     isBuyerMaker |-> isBuyerMaker, isNull |-> FALSE]

\* a null element of the trades array
NullRecord == [RawObject(0, Missing, Missing, Missing, 0, FALSE) EXCEPT !.isNull = TRUE]

\* a JSON object that is no array, such as {"symbol": ..., "price": ...}
Obj(o) == [t |-> "obj", n |-> 0, l |-> <<o>>]

---------------------------------------------------------------------------
(* Binance (src/assets/js/binance.js) *)

minUSD == 100000
CacheTTL == 60000
DefaultLimit == 20

Chains == {"btc", "eth", "sol"}

\* the table of pairs with BTCUSDT for every asset it does not name
symbolsOrBitcoin(chain) ==
    CASE chain = "eth" -> "ETHUSDT"
      [] chain = "sol" -> "SOLUSDT"
      [] OTHER -> "BTCUSDT"

symbols(chain) ==
    CASE chain = "btc" -> "BTCUSDT"
      [] chain = "eth" -> "ETHUSDT"
      [] chain = "sol" -> "SOLUSDT"
      [] OTHER -> ""

chainNames(chain) ==
    CASE chain = "btc" -> "Bitcoin"
      [] chain = "eth" -> "Ethereum"
      [] chain = "sol" -> "Solana"
      [] OTHER -> ""

defaultPrices(chain) ==
    CASE chain = "btc" -> 95000
      [] chain = "eth" -> 3200
      [] chain = "sol" -> 240
      [] OTHER -> 0

\* the key of the list without the limit
KeyWithoutLimit(chain, limit) == "binance_" \o chain \o "_transactions"

TxCacheKey(chain, limit) == "binance_" \o chain \o "_transactions_" \o ToString(limit)
PriceCacheKey(chain) == "binance_" \o chain \o "_price"

\* for (const trade of trades) throws unless trades is iterable
Iterable(v) == v.t = "list"

\* the threshold test with the threshold itself counted as below
AtOrBelowThreshold(quoteQty) == Less(quoteQty, Num(minUSD + 1))

\* if (quoteQty < this.minUSD) continue
BelowThreshold(quoteQty) == Less(quoteQty, Num(minUSD))

\* the record with the two counterparty labels the wrong way round
TransactionSwapped(chain, trade) ==
    LET tradeId == "binance_" \o chain \o "_" \o ToString(trade.id)
    IN  [id |-> tradeId,
         hash |-> tradeId,
         chain |-> chain,
         network |-> chainNames(chain),
         amountNative |-> parseFloat(trade.qty),
         amountUsd |-> parseFloat(trade.quoteQty),
         from |-> IF trade.isBuyerMaker THEN "Binance Buyer" ELSE "Binance Seller",
         to |-> IF trade.isBuyerMaker THEN "Binance Seller" ELSE "Binance Buyer",
         feeNative |-> 0,
         feeUsd |-> 0,
         timestamp |-> trade.time,
         blockHeight |-> 0,
         isExchangeTrade |-> TRUE,
         price |-> parseFloat(trade.price)]

\* the record processTrades pushes for one raw trade
Transaction(chain, trade) ==
    LET tradeId == "binance_" \o chain \o "_" \o ToString(trade.id)
    IN  [id |-> tradeId,
         hash |-> tradeId,
         chain |-> chain,
         network |-> chainNames(chain),
         amountNative |-> parseFloat(trade.qty),
         amountUsd |-> parseFloat(trade.quoteQty),
         from |-> IF trade.isBuyerMaker THEN "Binance Seller" ELSE "Binance Buyer",
         to |-> IF trade.isBuyerMaker THEN "Binance Buyer" ELSE "Binance Seller",
         feeNative |-> 0,
         feeUsd |-> 0,
         timestamp |-> trade.time,
         blockHeight |-> 0,
         isExchangeTrade |-> TRUE,
         price |-> parseFloat(trade.price)]

\* the loop body: a null record throws and is skipped by the inner catch
RECURSIVE processFrom(_, _, _)
processFrom(chain, l, i) ==
    IF i > Len(l) THEN <<>>
    ELSE LET trade == l[i]
             rest == processFrom(chain, l, i + 1)
         IN  IF trade.isNull THEN rest
             ELSE IF BelowThreshold(parseFloat(trade.quoteQty)) THEN rest
             ELSE <<Transaction(chain, trade)>> \o rest

\* processTrades(chain, trades, currentPrice): currentPrice is never read
processTrades(chain, trades) == processFrom(chain, trades.l, 1)

\* (a, b) => b.amountUsd - a.amountUsd, with NaN read as +0 (SortCompare)
Compare(a, b) ==
    IF a.amountUsd.t # "num" \/ b.amountUsd.t # "num" THEN 0
    ELSE b.amountUsd.n - a.amountUsd.n

\* x put into the sorted list l before the elements it ties with
RECURSIVE InsertBeforeTies(_, _)
InsertBeforeTies(l, x) ==
    IF l = <<>> THEN <<x>>
    ELSE IF Compare(l[Len(l)], x) < 0 THEN Append(l, x)
    ELSE Append(InsertBeforeTies(SubSeq(l, 1, Len(l) - 1), x), l[Len(l)])

\* x put into the sorted list l after every element that does not sort after it
RECURSIVE Insert(_, _)
Insert(l, x) ==
    IF l = <<>> THEN <<x>>
    ELSE IF Compare(l[Len(l)], x) <= 0 THEN Append(l, x)
    ELSE Append(Insert(SubSeq(l, 1, Len(l) - 1), x), l[Len(l)])

RECURSIVE SortFrom(_, _, _)
SortFrom(l, i, acc) == IF i > Len(l) THEN acc ELSE SortFrom(l, i + 1, Insert(acc, l[i]))

\* Array.prototype.sort with a consistent comparator: stable
StableSort(l) == SortFrom(l, 1, <<>>)

Orderings(l) ==
    {[i \in 1..Len(l) |-> l[p[i]]] :
        p \in {q \in [1..Len(l) -> 1..Len(l)] : \A i, j \in 1..Len(l) : i # j => q[i] # q[j]}}

\* .sort(comparator): with a NaN amount the comparator is not consistent and
\* the order is whatever the engine produces
sort(l) ==
    IF \A i \in 1..Len(l) : l[i].amountUsd.t = "num" THEN {StableSort(l)} ELSE Orderings(l)

\* .slice(0, limit)
slice(l, limit) ==
    LET end == IF limit < 0 THEN (IF Len(l) + limit < 0 THEN 0 ELSE Len(l) + limit)
               ELSE (IF limit > Len(l) THEN Len(l) ELSE limit)
    IN  SubSeq(l, 1, end)

\* Binance.getLargeTransactions / getPrice up to the first await, or to the
\* return when there is none: the activation and the storage it leaves
Activation(fn, chain, limit) ==
    [Idle EXCEPT !.fn = fn, !.chain = chain, !.limit = limit, !.settled = "pending"]

\* console.error in the catch of the function named
Caught(a, where) == [a EXCEPT !.console = Append(@, where)]

\* return v
Return(a, v) ==
    [a EXCEPT !.pc = "done", !.timer = FALSE, !.settled = "fulfilled", !.ret = v,
              !.held = Null, !.req = "", !.attempts = 0]

\* this.callAPI(endpoint) up to its await
callAPI(a, req) == API_fetchWithRetry([a EXCEPT !.req = req], RetryAttempts)

getLargeTransactions(chain, limit, st, t) ==
    LET a == Activation("txs", chain, limit)
        cached == Cache_get(st, TxCacheKey(chain, limit), t)
    IN  IF Truthy(cached.ret) THEN [act |-> Return(a, cached.ret), storage |-> cached.storage]
        ELSE IF symbols(chain) = ""
             THEN [act |-> Return(Caught(a, "getLargeTransactions"), Arr(<<>>)),
                   storage |-> cached.storage]
        ELSE [act |-> callAPI(a, "trades"), storage |-> cached.storage]

getPrice(chain, st, t) ==
    LET a == Activation("price", chain, 0)
        cached == Cache_get(st, PriceCacheKey(chain), t)
    IN  IF Truthy(cached.ret) THEN [act |-> Return(a, cached.ret), storage |-> cached.storage]
        ELSE [act |-> callAPI(a, "ticker"), storage |-> cached.storage]

\* ticker.price throws on null
PriceOf(ticker) == IF ticker.t = "obj" THEN parseFloat(ticker.l[1].price) ELSE NaN

Throws(ticker) == ticker.t \in {"null", "undef"}

\* getLargeTransactions from the return of the ticker call to its own return
FinishTransactions(a, ticker, st, t) ==
    IF Throws(ticker) \/ ~Iterable(a.held)
    THEN {[act |-> Return(Caught(a, "getLargeTransactions"), Arr(<<>>)), storage |-> st]}
    ELSE {[act |-> Return(a, Arr(slice(sorted, a.limit))),
           storage |-> Cache_set(st, TxCacheKey(a.chain, a.limit),
                                 Arr(slice(sorted, a.limit)), CacheTTL, t)] :
            sorted \in sort(processTrades(a.chain, a.held))}

\* getPrice from the return of the ticker call to its own return
FinishPrice(a, ticker, st, t) ==
    IF Throws(ticker)
    THEN {[act |-> Return(Caught(a, "getPrice"), Num(defaultPrices(a.chain))), storage |-> st]}
    ELSE {[act |-> Return(a, PriceOf(ticker)),
           storage |-> Cache_set(st, PriceCacheKey(a.chain), PriceOf(ticker), CacheTTL, t)]}

\* getLargeTransactions giving up when the trades call came back empty
\* handed, without asking for the price
AfterCallAPITradesOnly(a, v, st, t) ==
    CASE a.fn = "txs" /\ a.req = "trades" /\ v = Arr(<<>>) ->
            {[act |-> Return(a, Arr(<<>>)), storage |-> st]}
      [] a.fn = "txs" /\ a.req = "trades" /\ v # Arr(<<>>) ->
            {[act |-> callAPI([a EXCEPT !.held = v], "ticker"), storage |-> st]}
      [] a.fn = "txs" /\ a.req = "ticker" -> FinishTransactions(a, v, st, t)
      [] OTHER -> FinishPrice(a, v, st, t)

\* the caller of callAPI resumes with what callAPI returned
AfterCallAPI(a, v, st, t) ==
    CASE a.fn = "txs" /\ a.req = "trades" ->
            {[act |-> callAPI([a EXCEPT !.held = v], "ticker"), storage |-> st]}
      [] a.fn = "txs" /\ a.req = "ticker" -> FinishTransactions(a, v, st, t)
      [] OTHER -> FinishPrice(a, v, st, t)

\* API.fetch returned data: fetchWithRetry returns it, callAPI returns it
Succeeded(a, data, st, t) ==
    LET b == [a EXCEPT !.oks = @ + 1]
    IN  IF a.fn = "retry" THEN {[act |-> Fulfilled(b, data), storage |-> st]}
        ELSE AfterCallAPI(b, data, st, t)

\* API.fetch threw e, and callAPI lets the error of fetchWithRetry through
FailedUncaught(a, e, st, t) ==
    IF ~GiveUp(a.attempts) THEN {[act |-> API_delay(a), storage |-> st]}
    ELSE {[act |-> Rejected(a, e), storage |-> st]}

\* API.fetch threw e: fetchWithRetry rethrows it or waits and retries;
\* callAPI catches what fetchWithRetry throws and returns []
Failed(a, e, st, t) ==
    IF ~GiveUp(a.attempts) THEN {[act |-> API_delay(a), storage |-> st]}
    ELSE IF a.fn = "retry" THEN {[act |-> Rejected(a, e), storage |-> st]}
    ELSE AfterCallAPI(Caught(a, "callAPI " \o a.req), Arr(<<>>), st, t)

---------------------------------------------------------------------------
(* App (src/unnamed/part_000, lines 107-646) *)


NoDate == -1

AppState ==
    [currentChain |-> "all", currentSort |-> "amount", transactions |-> <<>>,
     isLoading |-> FALSE, lastUpdate |-> NoDate, expandedTxId |-> ""]

NoPage == [visible |-> {}, cards |-> <<>>, errorMessage |-> "", lastUpdate |-> ""]

NotStarted == [phase |-> "new", cycles |-> 0, started |-> 0, refreshAt |-> 0, displayAt |-> 0]

\* the text showError falls back to when it is given no message
DefaultErrorMessage == "cannot load the transactions, retry later"

showLoading(d) == [d EXCEPT !.visible = (@ \ {"list", "error", "empty"}) \cup {"loading"}]
showTransactions(d) == [d EXCEPT !.visible = (@ \ {"loading", "error", "empty"}) \cup {"list"}]
\* showEmpty without the line that hides the list
showEmptyOverList(d) == [d EXCEPT !.visible = (@ \ {"loading", "error"}) \cup {"empty"}]

showEmpty(d) == [d EXCEPT !.visible = (@ \ {"loading", "list", "error"}) \cup {"empty"}]
showError(d, message) ==
    [d EXCEPT !.visible = (@ \ {"loading", "list", "empty"}) \cup {"error"},
              !.errorMessage = IF message = "" THEN DefaultErrorMessage ELSE message]

\* API.formatTimeAgo(date) at time t (api.js lines 98-119)
formatTimeAgo(date, t) ==
    LET seconds == (t - date) \div 1000
        minutes == seconds \div 60
        hours == minutes \div 60
        days == hours \div 24
    IN  IF seconds < 60 THEN "just now"
        ELSE IF minutes < 60 THEN ToString(minutes) \o " minutes ago"
        ELSE IF hours < 24 THEN ToString(hours) \o " hours ago"
        ELSE IF days < 7 THEN ToString(days) \o " days ago"
        ELSE "on day " \o ToString(date \div 86400000)

\* updateLastUpdateTime(): the text of the last-update element
updateLastUpdateTime(a, d, t) ==
    [d EXCEPT !.lastUpdate = IF a.lastUpdate = NoDate THEN "loading..."
                             ELSE "last update: " \o formatTimeAgo(a.lastUpdate, t)]

RefreshInterval == 300000
DisplayInterval == 60000

\* startAutoRefresh(): the two intervals are set, the first ticks are due
\* one interval from now
startAutoRefresh(y, t) ==
    [y EXCEPT !.phase = "running", !.refreshAt = t + RefreshInterval,
              !.displayAt = t + DisplayInterval]

\* a filter that lets every transaction through
KeepAll(l, chain) == l

\* txs.filter(tx => tx.chain === this.state.currentChain)
RECURSIVE filter(_, _)
filter(l, chain) ==
    IF l = <<>> THEN <<>>
    ELSE IF Head(l).chain = chain THEN <<Head(l)>> \o filter(Tail(l), chain)
    ELSE filter(Tail(l), chain)

\* x put into the list sorted by timestamp, newest first, after its equals
RECURSIVE InsertByTime(_, _)
InsertByTime(l, x) ==
    IF l = <<>> THEN <<x>>
    ELSE IF x.timestamp - l[Len(l)].timestamp <= 0 THEN Append(l, x)
    ELSE Append(InsertByTime(SubSeq(l, 1, Len(l) - 1), x), l[Len(l)])

RECURSIVE SortByTimeFrom(_, _, _)
SortByTimeFrom(l, i, acc) ==
    IF i > Len(l) THEN acc ELSE SortByTimeFrom(l, i + 1, InsertByTime(acc, l[i]))

Ids(l) == [i \in 1..Len(l) |-> l[i].id]

\* the pages renderTransactions can leave
renderTransactions(a, d) ==
    LET txs == IF a.currentChain # "all" THEN filter(a.transactions, a.currentChain)
               ELSE a.transactions
        sorted == IF a.currentSort = "amount" THEN sort(txs)
                  ELSE {SortByTimeFrom(txs, 1, <<>>)}
    IN  IF txs = <<>> THEN {showEmpty(d)}
        ELSE {showTransactions([d EXCEPT !.cards = Ids(l)]) : l \in sorted}

\* loadData from the settling of the three fetches to its end, with init()'s
\* continuation (startAutoRefresh) when it was init()'s call: the merged
\* list is the fulfilled values in the order BTC, ETH, SOL
\* the merged list when one empty result makes the whole cycle empty
MergedUnlessOneEmpty(acts) ==
    IF \E s \in Slots : acts[s].settled # "fulfilled" \/ acts[s].ret.l = <<>> THEN <<>>
    ELSE acts[1].ret.l \o acts[2].ret.l \o acts[3].ret.l

\* the merged list with the results in the order SOL, ETH, BTC
MergedReversed(acts) ==
    (IF acts[3].settled = "fulfilled" THEN acts[3].ret.l ELSE <<>>)
    \o (IF acts[2].settled = "fulfilled" THEN acts[2].ret.l ELSE <<>>)
    \o (IF acts[1].settled = "fulfilled" THEN acts[1].ret.l ELSE <<>>)

Merged(acts) ==
    (IF acts[1].settled = "fulfilled" THEN acts[1].ret.l ELSE <<>>)
    \o (IF acts[2].settled = "fulfilled" THEN acts[2].ret.l ELSE <<>>)
    \o (IF acts[3].settled = "fulfilled" THEN acts[3].ret.l ELSE <<>>)

AllSettled(acts) == \A s \in Slots : acts[s].settled \in {"fulfilled", "rejected"}

\* the end of loadData without its finally: isLoading stays set
FinishLoadStuck(a, d, y, acts, t) ==
    LET a1 == [a EXCEPT !.transactions = Merged(acts), !.lastUpdate = t]
        y1 == [y EXCEPT !.cycles = @ - 1]
    IN  {[app |-> a1,
          dom |-> d1,
          sys |-> IF y.phase = "init" THEN startAutoRefresh(y1, t) ELSE y1] :
            d1 \in renderTransactions(a1, updateLastUpdateTime(a1, d, t))}

\* assigning lastUpdate later than the merged list is looked at: only a
\* cycle that loaded something updates it
FinishLoadUnlessEmpty(a, d, y, acts, t) ==
    LET a1 == [a EXCEPT !.transactions = Merged(acts),
                        !.lastUpdate = IF Merged(acts) = <<>> THEN @ ELSE t]
        y1 == [y EXCEPT !.cycles = @ - 1]
    IN  {[app |-> [a1 EXCEPT !.isLoading = FALSE],
          dom |-> d1,
          sys |-> IF y.phase = "init" THEN startAutoRefresh(y1, t) ELSE y1] :
            d1 \in renderTransactions(a1, updateLastUpdateTime(a1, d, t))}

FinishLoad(a, d, y, acts, t) ==
    LET a1 == [a EXCEPT !.transactions = Merged(acts), !.lastUpdate = t]
        y1 == [y EXCEPT !.cycles = @ - 1]
    IN  {[app |-> [a1 EXCEPT !.isLoading = FALSE],
          dom |-> d1,
          sys |-> IF y.phase = "init" THEN startAutoRefresh(y1, t) ELSE y1] :
            d1 \in renderTransactions(a1, updateLastUpdateTime(a1, d, t))}

---------------------------------------------------------------------------
(* The exchange and the browser's network stack and timers.                *)

\* what the exchange does with the requests for a pair
Flaky == [c \in Chains |-> "flaky"]

\* the script files are loaded, nothing has run
Loaded ==
    /\ now = 0
    /\ storage = EmptyStorage
    /\ last = Called("none", "", Null, NoStats)
    /\ act = NoActivations
    /\ log = <<>>
    /\ app = AppState
    /\ dom = NoPage
    /\ sys = NotStarted

Start == Loaded /\ net = Flaky

Mode(a) == IF a.chain \in DOMAIN net THEN net[a.chain] ELSE "flaky"

MayFail(a) == Mode(a) # "up"
MaySucceed(a) == Mode(a) # "down"

PriceText == Str(DecimalText(95000))
QtyText == Str(DecimalText(2))

\* the raw trades the exchange sends: below, at and above the threshold,
\* one without its quoteQty, one without its price, and a null element
Trade(id, quoteQty, isBuyerMaker) ==
    RawObject(id, PriceText, QtyText, quoteQty, 1000 + id, isBuyerMaker)

TradeShapes(id) ==
    {Trade(id, Str(DecimalText(50000)), FALSE),
     Trade(id, Str(DecimalText(100000)), TRUE),
     Trade(id, Str(DecimalText(150000)), FALSE),
     Trade(id, Str(DecimalText(150000)), TRUE),
     Trade(id, Missing, FALSE),
     [Trade(id, Str(DecimalText(150000)), FALSE) EXCEPT !.price = Missing],
     NullRecord}

\* the lists of at most n raw trades, the trade at place i with id i
RECURSIVE TradeLists(_)
TradeLists(n) ==
    IF n = 0 THEN {<<>>}
    ELSE LET shorter == TradeLists(n - 1)
         IN  shorter \cup {Append(l, x) : l \in {m \in shorter : Len(m) = n - 1},
                                          x \in TradeShapes(n)}

Ticker == RawObject(0, PriceText, Missing, Missing, 0, FALSE)

\* the trades of a pair while its endpoint is steadily up
SampleFeed(chain) ==
    CASE chain = "btc" -> <<Trade(1, Str(DecimalText(150000)), FALSE),
                            Trade(2, Str(DecimalText(50000)), FALSE)>>
      [] chain = "eth" -> <<Trade(1, Str(DecimalText(100000)), TRUE)>>
      [] OTHER -> <<Trade(1, Str(DecimalText(50000)), TRUE),
                    Trade(2, Str(DecimalText(150000)), TRUE)>>

\* the JSON bodies a request of activation a can be answered with: the
\* pair's trades, an object that is no array, or null
Payloads(a) ==
    IF Mode(a) = "flaky" THEN {Arr(SampleFeed(a.chain)), Obj(Ticker), Null}
    ELSE IF a.req = "trades" THEN {Arr(SampleFeed(a.chain))}
    ELSE {Obj(Ticker)}

Pending(s) == act[s].pc \in {"fetch", "json", "delay"}

\* slot s moves to one of the outcomes; when that settles the last of the
\* three fetches of a loadData cycle, loadData runs to its end
Settle(s, outcomes) ==
    \E o \in outcomes :
        LET acts == [act EXCEPT ![s] = o.act]
        IN  /\ act' = acts
            /\ storage' = o.storage
            /\ IF app.isLoading /\ AllSettled(acts)
               THEN \E f \in FinishLoad(app, dom, sys, acts, now) :
                        /\ app' = f.app
                        /\ dom' = f.dom
                        /\ sys' = f.sys
               ELSE UNCHANGED appVars
            /\ UNCHANGED <<now, last, net>>

Logged(a, e) == IF a.fn = "retry" THEN Append(log, e) ELSE log

\* the response arrives with a success status: clearTimeout, await response.json()
RespondOk(s) ==
    /\ act[s].pc = "fetch"
    /\ MaySucceed(act[s])
    /\ act' = [act EXCEPT ![s].pc = "json", ![s].timer = FALSE]
    /\ UNCHANGED <<now, storage, last, log, net, appVars>>

\* the response arrives with an error status: throw new Error(`HTTP ${status}`)
RespondStatus(s) ==
    /\ act[s].pc = "fetch"
    /\ MayFail(act[s])
    /\ \E status \in HttpStatuses :
        /\ Settle(s, Failed(act[s], ErrHttp(status), storage, now))
        /\ log' = Logged(act[s], ErrHttp(status))

\* fetch() rejects: no connection, CORS
NetworkError(s) ==
    /\ act[s].pc = "fetch"
    /\ MayFail(act[s])
    /\ Settle(s, Failed(act[s], ErrNetwork, storage, now))
    /\ log' = Logged(act[s], ErrNetwork)

\* the abort timer fires: controller.abort(), fetch() rejects with AbortError
TimerFires(s) ==
    /\ act[s].pc = "fetch"
    /\ act[s].timer
    /\ MayFail(act[s])
    /\ Settle(s, Failed(act[s], ErrTimeout, storage, now))
    /\ log' = Logged(act[s], ErrTimeout)

\* response.json() resolves with the parsed body
BodyArrives(s) ==
    /\ act[s].pc = "json"
    /\ MaySucceed(act[s])
    /\ \E data \in Payloads(act[s]) : Settle(s, Succeeded(act[s], data, storage, now))
    /\ UNCHANGED log

\* response.json() rejects: the body is no JSON
BodyFails(s) ==
    /\ act[s].pc = "json"
    /\ MayFail(act[s])
    /\ Settle(s, Failed(act[s], ErrParse, storage, now))
    /\ log' = Logged(act[s], ErrParse)

\* the retry delay is over: fetchWithRetry(url, options, attempts - 1)
DelayElapses(s) ==
    /\ act[s].pc = "delay"
    /\ act' = [act EXCEPT ![s] = Retry(act[s])]
    /\ UNCHANGED <<now, storage, last, log, net, appVars>>

Network(s) ==
    \/ RespondOk(s)
    \/ RespondStatus(s)
    \/ NetworkError(s)
    \/ TimerFires(s)
    \/ BodyArrives(s)
    \/ BodyFails(s)
    \/ DelayElapses(s)

---------------------------------------------------------------------------
(* API.fetchWithRetry called directly, with any number of attempts.        *)

MaxAttempts == 3

InitRetry == Start

CallFetchWithRetry ==
    /\ act[1].pc \in {"idle", "done"}
    /\ \E attempts \in (-1)..MaxAttempts :
        act' = [act EXCEPT ![1] =
                    API_fetchWithRetry([Idle EXCEPT !.fn = "retry", !.settled = "pending",
                                                    !.arg = attempts], attempts)]
    /\ log' = <<>>
    /\ UNCHANGED <<now, storage, last, net, appVars>>

NextRetry ==
    \/ CallFetchWithRetry
    \/ Network(1)

SpecRetry == InitRetry /\ [][NextRetry]_vars

---------------------------------------------------------------------------
(* The cache driven directly: any sequence of calls and clock advances. *)

MaxTime == 3
MaxTTL == 2

CacheKeys == {"k", "j"}
CacheValues == {Num(42), Num(0), Null}
CacheTTLs == 0..MaxTTL

\* a call set(key, value, ttl) for the record: the value and the ttl given
SetCall(key, value, ttl) == Called("set", key, value, <<ttl, 0, 0>>)

InitCache == Start

Tick(d) ==
    /\ now' = now + d
    /\ UNCHANGED storage

CacheAdvance ==
    /\ now < MaxTime
    /\ Tick(1)
    /\ last' = Called("tick", "", Null, NoStats)
    /\ UNCHANGED <<netVars, appVars>>

CallSet ==
    \E key \in CacheKeys, value \in CacheValues, ttl \in CacheTTLs :
        /\ storage' = Cache_set(storage, key, value, ttl, now)
        /\ last' = SetCall(key, value, ttl)
        /\ UNCHANGED <<now, netVars, appVars>>

\* set(key, value), the ttl left out
CallSetDefault ==
    \E key \in CacheKeys, value \in CacheValues :
        /\ storage' = Cache_setDefault(storage, key, value, now)
        /\ last' = Called("set()", key, value, NoStats)
        /\ UNCHANGED <<now, netVars, appVars>>

CallGet ==
    \E key \in CacheKeys :
        LET r == Cache_get(storage, key, now)
        IN  /\ storage' = r.storage
            /\ last' = Called("get", key, r.ret, NoStats)
            /\ UNCHANGED <<now, netVars, appVars>>

CallHas ==
    \E key \in CacheKeys :
        LET r == Cache_has(storage, key, now)
        IN  /\ storage' = r.storage
            /\ last' = Called(IF r.ret THEN "has:true" ELSE "has:false", key, Null, NoStats)
            /\ UNCHANGED <<now, netVars, appVars>>

CallDelete ==
    \E key \in CacheKeys :
        /\ storage' = Cache_delete(storage, key)
        /\ last' = Called("delete", key, Null, NoStats)
        /\ UNCHANGED <<now, netVars, appVars>>

CallClear ==
    /\ storage' = Cache_clear(storage)
    /\ last' = Called("clear", "", Null, NoStats)
    /\ UNCHANGED <<now, netVars, appVars>>

CallGetStats ==
    /\ last' = Called("getStats", "", Null, Cache_getStats(storage, now))
    /\ UNCHANGED <<now, storage, netVars, appVars>>

NextCache ==
    \/ CacheAdvance
    \/ CallSet
    \/ CallSetDefault
    \/ CallGet
    \/ CallHas
    \/ CallDelete
    \/ CallClear
    \/ CallGetStats

SpecCache == InitCache /\ [][NextCache]_vars

---------------------------------------------------------------------------
(* Binance.getLargeTransactions and Binance.getPrice called directly, one  *)
(* call at a time, with the clock advancing between and during the calls.  *)

MaxCalls == 2
MaxLimit == 1

\* the instants the clock is read at: the start, the instant a list stored
\* at the start expires, and the instant after
Instants == {0, CacheTTL, CacheTTL + 1}

CallChains == {"btc", "eth", "doge"}
CallLimits == 0..MaxLimit

Counted == [sys EXCEPT !.started = @ + 1]

ClockAdvances ==
    /\ \E t \in Instants :
        /\ t > now
        /\ Tick(t - now)
    /\ UNCHANGED <<last, netVars, appVars>>

CallGetLargeTransactions ==
    /\ act[1].pc \in {"idle", "done"}
    /\ sys.started < MaxCalls
    /\ \E chain \in CallChains, limit \in CallLimits :
        LET r == getLargeTransactions(chain, limit, storage, now)
        IN  /\ act' = [act EXCEPT ![1] = r.act]
            /\ storage' = r.storage
    /\ sys' = Counted
    /\ UNCHANGED <<now, last, log, net, app, dom>>

CallGetPrice ==
    /\ act[1].pc \in {"idle", "done"}
    /\ sys.started < MaxCalls
    /\ \E chain \in CallChains :
        LET r == getPrice(chain, storage, now)
        IN  /\ act' = [act EXCEPT ![1] = r.act]
            /\ storage' = r.storage
    /\ sys' = Counted
    /\ UNCHANGED <<now, last, log, net, app, dom>>

NextBinance ==
    \/ CallGetLargeTransactions
    \/ CallGetPrice
    \/ Network(1)
    \/ ClockAdvances

SpecBinance == Start /\ [][NextBinance]_vars

---------------------------------------------------------------------------
(* processTrades, sort and slice applied to every list of raw trades.      *)

MaxTrades == 3

InitTrades ==
    /\ now = 0
    /\ storage = EmptyStorage
    /\ last = Called("none", "", Null, NoStats)
    /\ log = <<>>
    /\ net = Flaky
    /\ app = AppState
    /\ dom = NoPage
    /\ sys = NotStarted
    /\ \E l \in TradeLists(MaxTrades), chain \in {"btc", "sol"}, limit \in 0..(MaxLimit + 1) :
        act = [NoActivations EXCEPT ![1] =
                  [Idle EXCEPT !.fn = "processTrades", !.pc = "input", !.chain = chain,
                               !.limit = limit, !.held = Arr(l)]]

\* const processedTxs = this.processTrades(chain, trades, currentPrice)
ApplyProcessTrades ==
    /\ act[1].pc = "input"
    /\ act' = [act EXCEPT ![1].pc = "processed",
                          ![1].ret = Arr(processTrades(act[1].chain, act[1].held))]
    /\ UNCHANGED <<now, storage, last, log, net, appVars>>

\* const sortedTxs = processedTxs.sort(...).slice(0, limit)
ApplySortSlice ==
    /\ act[1].pc = "processed"
    /\ \E sorted \in sort(act[1].ret.l) :
        act' = [act EXCEPT ![1].pc = "sorted", ![1].ret = Arr(slice(sorted, act[1].limit))]
    /\ UNCHANGED <<now, storage, last, log, net, appVars>>

NextTrades ==
    \/ ApplyProcessTrades
    \/ ApplySortSlice

SpecTrades == InitTrades /\ [][NextTrades]_vars

---------------------------------------------------------------------------
(* The page: App.init on DOMContentLoaded, then clicks, the refresh timer, *)
(* the exchange answering or failing per pair, and the clock.              *)

\* what the exchange does with the requests for each pair
Scenarios == [Chains -> {"up", "down"}]

\* a pair that is up answers every request with its JSON; one that is down
\* answers none: an error status, a connection error or a timeout
Exchange(s) ==
    \/ RespondOk(s)
    \/ RespondStatus(s)
    \/ NetworkError(s)
    \/ TimerFires(s)
    \/ BodyArrives(s)
    \/ DelayElapses(s)

\* BitcoinService.getLargeTransactions(limit): the delegation the other two
\* facades make
BitcoinService_getLargeTransactions(limit, st, t) == getLargeTransactions("btc", limit, st, t)

EthereumService_getLargeTransactions(limit, st, t) == getLargeTransactions("eth", limit, st, t)

SolanaService_getLargeTransactions(limit, st, t) == getLargeTransactions("sol", limit, st, t)

\* loadData without its guard
NeverRejects(a) == FALSE

\* if (this.state.isLoading) return
LoadDataRejects(a) == a.isLoading

\* a call of loadData(force) and what became of it, for the record
Ignored == Num(0)
Began == Num(1)
LoadDataCall(force, outcome) == Called("loadData", IF force THEN "force" ELSE "", outcome, NoStats)

\* loadData(force), called with the lifecycle y, up to its await, and to
\* its end when every fetch is answered from the cache
loadData(force, y) ==
    IF LoadDataRejects(app)
    THEN /\ last' = LoadDataCall(force, Ignored)
         /\ sys' = y
         /\ UNCHANGED <<now, storage, act, log, net, app, dom>>
    ELSE LET a1 == [app EXCEPT !.isLoading = TRUE]
             d1 == showLoading(dom)
             y1 == [y EXCEPT !.cycles = @ + 1]
             st == IF force THEN Cache_clear(storage) ELSE storage
             btc == BitcoinService_getLargeTransactions(DefaultLimit, st, now)
             eth == EthereumService_getLargeTransactions(DefaultLimit, btc.storage, now)
             sol == SolanaService_getLargeTransactions(DefaultLimit, eth.storage, now)
             acts == [s \in Slots |-> IF s = 1 THEN btc.act ELSE IF s = 2 THEN eth.act ELSE sol.act]
         IN  /\ last' = LoadDataCall(force, Began)
             /\ act' = acts
             /\ storage' = sol.storage
             /\ IF AllSettled(acts)
                THEN \E f \in FinishLoad(a1, d1, y1, acts, now) :
                        /\ app' = f.app
                        /\ dom' = f.dom
                        /\ sys' = f.sys
                ELSE /\ app' = a1
                     /\ dom' = d1
                     /\ sys' = y1
             /\ UNCHANGED <<now, log, net>>

Init == Loaded /\ net \in Scenarios

\* App.init(): cacheElements, bindEvents, await this.loadData()
init ==
    /\ sys.phase = "new"
    /\ loadData(FALSE, [sys EXCEPT !.phase = "init"])

\* the refresh button: this.loadData(true)
ClickRefresh ==
    /\ sys.phase # "new"
    /\ loadData(TRUE, sys)

\* the retry button: this.loadData()
ClickRetry ==
    /\ sys.phase # "new"
    /\ loadData(FALSE, sys)

\* the 5-minute interval startAutoRefresh sets: this.loadData(true)
AutoRefresh ==
    /\ sys.phase = "running"
    /\ loadData(TRUE, sys)

setChain(chain) ==
    /\ sys.phase # "new"
    /\ LET a1 == [app EXCEPT !.currentChain = chain]
       IN  /\ app' = a1
           /\ dom' \in renderTransactions(a1, dom)
    /\ UNCHANGED <<now, storage, last, netVars, sys>>

Next ==
    \/ init
    \/ ClickRefresh
    \/ ClickRetry
    \/ AutoRefresh
    \/ \E chain \in Chains \cup {"all"} : setChain(chain)
    \/ \E s \in Slots : Exchange(s)

Spec == Init /\ [][Next]_vars


---------------------------------------------------------------------------
(* The page left alone: App.init, then the two interval timers             *)
(* startAutoRefresh sets, the exchange, and the clock in steps of a        *)
(* minute. A timer runs its callback at the instant it is due.             *)

MaxMinutes == 10

\* every pair answers, or BTCUSDT alone does not
Outages == {[c \in Chains |-> "up"], [c \in Chains |-> IF c = "btc" THEN "down" ELSE "up"]}

\* the refresh timer calling loadData without force
RefreshTimerUnforced ==
    /\ sys.phase = "running"
    /\ now >= sys.refreshAt
    /\ loadData(FALSE, [sys EXCEPT !.refreshAt = @ + RefreshInterval])

InitTimers == Loaded /\ net \in Outages

\* setInterval(() => this.loadData(true), 5 * 60 * 1000)
RefreshTimer ==
    /\ sys.phase = "running"
    /\ now >= sys.refreshAt
    /\ loadData(TRUE, [sys EXCEPT !.refreshAt = @ + RefreshInterval])

\* setInterval(() => this.updateLastUpdateTime(), 60 * 1000)
DisplayTimer ==
    /\ sys.phase = "running"
    /\ now >= sys.displayAt
    /\ dom' = updateLastUpdateTime(app, dom, now)
    /\ sys' = [sys EXCEPT !.displayAt = @ + DisplayInterval]
    /\ UNCHANGED <<now, storage, last, netVars, app>>

\* a minute passes, once the callbacks that are due have run
TimePasses ==
    /\ sys.phase # "new"
    /\ now < MaxMinutes * 60000
    /\ sys.phase = "running" => (now < sys.refreshAt /\ now < sys.displayAt)
    /\ Tick(60000)
    /\ last' = Called("tick", "", Null, NoStats)
    /\ UNCHANGED <<netVars, appVars>>

NextTimers ==
    \/ init
    \/ RefreshTimer
    \/ DisplayTimer
    \/ TimePasses
    \/ \E s \in Slots : Exchange(s)

SpecTimers == InitTimers /\ [][NextTimers]_vars

\* the page with its buttons for loadData and the refresh timer, without
\* the clock
NextLoad ==
    \/ init
    \/ ClickRefresh
    \/ ClickRetry
    \/ AutoRefresh
    \/ \E s \in Slots : Exchange(s)

\* every request is answered or fails in the end, and every retry delay
\* ends: as long as a request or a delay is pending, one of them moves on
FairLoad == InitTimers /\ [][NextLoad]_vars /\ WF_vars(\E s \in Slots : Exchange(s))

\* the page with its retry button, whose loadData() reads the cache, and
\* the clock: at the start, at the instant the lists stored at the start
\* expire, and after it
NextClock ==
    \/ init
    \/ ClickRetry
    \/ ClockAdvances
    \/ \E s \in Slots : Exchange(s)

SpecClock == Init /\ [][NextClock]_vars

---------------------------------------------------------------------------
(* Properties of the timers, checked under SpecTimers.                     *)

\* this step is a tick of the 5-minute timer, of the 1-minute timer
RefreshTicks == sys.phase = "running" /\ sys'.refreshAt # sys.refreshAt
DisplayTicks == sys.phase = "running" /\ sys'.displayAt # sys.displayAt

\* the text for a last update of so many whole minutes ago, under an hour
MinutesAgo(m) ==
    IF m = 0 THEN "last update: just now" ELSE "last update: " \o ToString(m) \o " minutes ago"

\* a tick of the refresh timer comes when it is due, is a call
\* loadData(true), and is ignored while a cycle is loading, leaving only
\* the timer set for the next tick; once init has ended a cycle begins
\* only in such a tick; a tick of the display timer changes the text of the
\* last-update element and nothing else
C21_Step ==
    /\ RefreshTicks =>
        /\ now = sys.refreshAt
        /\ sys' = [sys EXCEPT !.refreshAt = @ + 300000, !.cycles = sys'.cycles]
        /\ IF app.isLoading
           THEN /\ last' = LoadDataCall(TRUE, Ignored)
                /\ UNCHANGED <<now, storage, act, log, net, app, dom>>
                /\ sys'.cycles = sys.cycles
           ELSE /\ last' = LoadDataCall(TRUE, Began)
                /\ app' = [app EXCEPT !.isLoading = TRUE]
                /\ dom'.visible = {"loading"}
                /\ storage' = EmptyStorage
                /\ \A s \in Slots : act'[s].pc = "fetch" /\ act'[s].fetches = 1
    /\ (sys.phase = "running" /\ (act' # act \/ storage' # storage) /\ ~app.isLoading) =>
            RefreshTicks
    /\ DisplayTicks =>
        /\ now = sys.displayAt
        /\ sys' = [sys EXCEPT !.displayAt = @ + 60000]
        /\ UNCHANGED <<now, storage, last, act, log, net, app>>
        /\ dom' = [dom EXCEPT !.lastUpdate = MinutesAgo((now - app.lastUpdate) \div 60000)]

\* C21: each tick of the 5-minute timer is a call loadData(true), which
\* starts a forced cycle when none is loading and is dropped when one is:
\* the tick is then gone, and the next cycle starts at a later tick; each
\* tick of the 1-minute timer rewrites the time-since-last-update text and
\* changes no field of state, no cache entry and sends no request.
C21_TimersTick == [][C21_Step]_vars

\* ten minutes after init the second tick of the refresh timer has been
\* dropped, the cycle of the first tick still loading, and the text reads
\* ten minutes
C21_Witness ==
    /\ app.isLoading
    /\ last = LoadDataCall(TRUE, Ignored)
    /\ now = 600000
    /\ sys.refreshAt = 900000
    /\ dom.lastUpdate = "last update: 10 minutes ago"
    /\ app.lastUpdate = 0

\* C22: once init has run, a new load cycle that goes to the exchange
\* starts in every interval of one minute, the page left alone: when the
\* clock moves on from an instant that lies a minute or more after the end
\* of the latest cycle, a call of loadData has been accepted since the
\* clock moved last, that is, within the minute that ends.
C22_CycleEveryMinute ==
    [][(sys.phase = "running" /\ now' = now + 60000 /\ now >= app.lastUpdate + 60000) =>
            (last = LoadDataCall(TRUE, Began) \/ last = LoadDataCall(FALSE, Began))]_vars

---------------------------------------------------------------------------
(* Properties of the cache, checked under SpecCache.                       *)

Reads == {"get", "has:true", "has:false"}

\* C1: Cache.get(key) returns the stored value exactly while the key is
\* stored and now <= its expiry, and then changes nothing; otherwise it
\* returns null and leaves the storage without the key and with every other
\* entry as it was; and an entry disappears from the storage only in a
\* get, has, delete or clear: no other step sweeps expired entries.
C1_GetHonoursExpiry ==
    [][/\ last'.op = "get" =>
            LET k == last'.key
            IN  IF HasKey(storage, k) /\ now <= storage[k].expiry
                THEN last'.ret = storage[k].value /\ storage' = storage
                ELSE /\ last'.ret = Null
                     /\ DOMAIN storage' = DOMAIN storage \ {k}
                     /\ \A j \in DOMAIN storage' : storage'[j] = storage[j]
       /\ (DOMAIN storage \ DOMAIN storage' # {}) =>
            last'.op \in Reads \cup {"delete", "clear"}]_vars

\* a get at the very instant of expiry has returned the value, while an
\* entry of another key, expired and never read, is still stored
C1_Witness ==
    /\ last.op = "get"
    /\ last.ret = Num(42)
    /\ now > 0
    /\ HasKey(storage, last.key)
    /\ storage[last.key].expiry = now
    /\ \E j \in DOMAIN storage : j # last.key /\ now > storage[j].expiry

---------------------------------------------------------------------------
(* Properties of fetchWithRetry, checked under SpecRetry.                  *)

\* C4: a call fetchWithRetry(url, options, attempts), attempts >= 1, never
\* makes more than attempts fetches; when every fetch has failed it rejects
\* only after exactly attempts fetches, with the error of the last one (a
\* timeout when all timed out), and then nothing of the call is pending:
\* no request, no timer, no delay.
C4_ExactlyAttemptsThenLastError ==
    LET a == act[1]
    IN  (a.fn = "retry" /\ a.arg >= 1) =>
            /\ a.fetches <= a.arg
            /\ a.oks = 0 => (a.settled # "fulfilled" /\ Len(log) = a.fetches - (IF a.pc \in {"fetch", "json"} THEN 1 ELSE 0))
            /\ a.settled = "rejected" =>
                /\ a.oks = 0
                /\ a.fetches = a.arg
                /\ a.delays = a.arg - 1
                /\ a.err = log[Len(log)]
                /\ (\A i \in 1..Len(log) : log[i] = ErrTimeout) => a.err = ErrTimeout
                /\ a.pc = "done" /\ ~a.timer
                /\ ~ENABLED Network(1)

\* three attempts, each timed out, and the call rejected with the timeout
C4_Witness ==
    /\ act[1].fn = "retry"
    /\ act[1].arg = 3
    /\ act[1].settled = "rejected"
    /\ act[1].fetches = 3
    /\ log = <<ErrTimeout, ErrTimeout, ErrTimeout>>
    /\ act[1].err = ErrTimeout

---------------------------------------------------------------------------
(* Properties of processTrades, sort and slice, checked under SpecTrades.  *)

Quote(trade) == parseFloat(trade.quoteQty)

HasQuote(trade) == ~trade.isNull /\ Quote(trade).t = "num"

\* how many of the transactions of out were made from the raw trade
Yield(out, chain, trade) ==
    Cardinality({j \in 1..Len(out) : out[j].id = Transaction(chain, trade).id})

Numeric(l) == \A i \in 1..Len(l) : l[i].amountUsd.t = "num"

\* the place of transaction x in the list l
Place(l, x) == CHOOSE k \in 1..Len(l) : l[k] = x

---------------------------------------------------------------------------
(* Properties of the adapter, checked under SpecBinance.                   *)

\* the catches that ran in activation a
Catches(a) == {a.console[i] : i \in 1..Len(a.console)}

\* the call made no request and ran no catch: it was answered from the cache
Hit(a) == a.fetches = 0 /\ a.console = <<>>

\* C6: the promise of getLargeTransactions never rejects, for any asset
\* identifier and any outcome of the requests, and fulfils with a list;
\* the list is empty when the asset is unsupported, when the trades request
\* failed, or when an exception was caught (a trades payload that is not
\* iterable, a null price payload); when only the price request failed,
\* the list is the one a successful price request would have given: it
\* is stored and returned.
C6_NeverRejects ==
    LET a == act[1]
        key == TxCacheKey(a.chain, a.limit)
    IN  a.fn = "txs" =>
            /\ a.settled # "rejected"
            /\ a.pc = "done" =>
                /\ a.settled = "fulfilled"
                /\ a.ret.t = "list"
                /\ symbols(a.chain) = "" => a.ret = Arr(<<>>)
                /\ (Catches(a) \cap {"getLargeTransactions", "callAPI trades"} # {}) =>
                        a.ret = Arr(<<>>)
                /\ a.console = <<"callAPI ticker">> =>
                        /\ HasKey(storage, key)
                        /\ storage[key].value = a.ret

\* both requests failed after three attempts each, and the empty list came back
C6_Witness ==
    /\ act[1].fn = "txs"
    /\ act[1].pc = "done"
    /\ act[1].settled = "fulfilled"
    /\ act[1].console = <<"callAPI trades", "callAPI ticker">>
    /\ act[1].fetches = 6
    /\ act[1].ret = Arr(<<>>)

\* C6 as first stated: the promise fulfils, with an empty list whenever a
\* step of the operation failed.
C6_EmptyWheneverAStepFailed ==
    LET a == act[1]
    IN  (a.fn = "txs" /\ a.pc = "done") =>
            /\ a.settled = "fulfilled"
            /\ a.console # <<>> => a.ret = Arr(<<>>)

\* C7: getPrice never rejects; when its price request has failed it returns
\* the fallback price of the asset (btc 95000, eth 3200, sol 240); when the
\* request succeeded it returns the fetched price and stores it under the
\* key of the asset's price with expiry 60 s later.
C7_FallbackOnFailure ==
    LET a == act[1]
        key == PriceCacheKey(a.chain)
    IN  (a.fn = "price" /\ a.pc = "done") =>
            /\ a.settled = "fulfilled"
            /\ ("callAPI ticker" \in Catches(a) /\ a.chain \in Chains) =>
                    a.ret = Num(defaultPrices(a.chain))
            /\ (a.fetches > 0 /\ a.console = <<>>) =>
                    /\ HasKey(storage, key)
                    /\ storage[key].value = a.ret
                    /\ storage[key].expiry <= now + CacheTTL

\* every list stored under the key of (asset, limit) is a list of at most
\* limit transactions of that asset
C8_Entries ==
    \A chain \in CallChains, limit \in CallLimits :
        HasKey(storage, TxCacheKey(chain, limit)) =>
            LET v == storage[TxCacheKey(chain, limit)].value
            IN  /\ v.t = "list"
                /\ Len(v.l) <= limit
                /\ \A i \in 1..Len(v.l) : v.l[i].chain = chain

\* a call of getLargeTransactions, and the return of one that made requests
C8_Step ==
    LET a == act[1]
        b == act'[1]
        key == TxCacheKey(b.chain, b.limit)
        others == (DOMAIN storage) \ {key}
    IN  /\ (sys'.started # sys.started /\ b.fn = "txs") =>
            IF HasKey(storage, key) /\ now <= storage[key].expiry
            THEN /\ b.pc = "done"
                 /\ b.settled = "fulfilled"
                 /\ b.ret = storage[key].value
                 /\ Hit(b)
                 /\ storage' = storage
            ELSE /\ ~Hit(b) \/ b.pc # "done"
                 /\ DOMAIN storage' = others
                 /\ \A k \in others : storage'[k] = storage[k]
        /\ (a.fn = "txs" /\ a.pc # "done" /\ b.pc = "done") =>
            IF "getLargeTransactions" \in Catches(b)
            THEN b.ret = Arr(<<>>) /\ storage' = storage
            ELSE /\ DOMAIN storage' = DOMAIN storage \cup {key}
                 /\ storage'[key] = [value |-> b.ret, expiry |-> now + 60000]
                 /\ \A k \in others : storage'[k] = storage[k]

\* C8: a call that finds an unexpired entry under the key of its (asset,
\* limit) returns the stored list, makes no request and leaves the cache
\* as it is; a call that misses and ends without an exception stores the
\* list it returns under that key with expiry 60 s after the moment of
\* storing, and one that ends in the catch (unsupported asset, payload
\* that cannot be processed) returns the empty list and stores nothing;
\* the entry of one (asset, limit) holds only that asset's transactions,
\* at most limit of them, so it is never returned for another pair.
C8_HitAndStore == []C8_Entries /\ [][C8_Step]_vars

\* a list stored at time 0 is returned at time 60000, its instant of
\* expiry, without a request
C8_Witness ==
    /\ act[1].fn = "txs"
    /\ act[1].pc = "done"
    /\ Hit(act[1])
    /\ act[1].ret.t = "list"
    /\ act[1].ret.l # <<>>
    /\ HasKey(storage, TxCacheKey(act[1].chain, act[1].limit))
    /\ storage[TxCacheKey(act[1].chain, act[1].limit)].value = act[1].ret
    /\ storage[TxCacheKey(act[1].chain, act[1].limit)].expiry = now
    /\ now = CacheTTL

\* C8 as first stated, for the miss: whatever list a call that missed
\* returns is stored under its key, to expire within 60 s.
C8_MissAlwaysStores ==
    LET a == act[1]
        key == TxCacheKey(a.chain, a.limit)
    IN  (a.fn = "txs" /\ a.pc = "done" /\ ~Hit(a)) =>
            /\ HasKey(storage, key)
            /\ storage[key].value = a.ret
            /\ storage[key].expiry <= now + CacheTTL

---------------------------------------------------------------------------
(* Properties of the page, checked under Spec.                             *)

\* every request of the activation failed after its retries
AllRequestsFailed(a) ==
    /\ a.pc = "done"
    /\ a.oks = 0
    /\ a.fetches = 2 * RetryAttempts
    /\ a.console = <<"callAPI trades", "callAPI ticker">>

\* both requests of the activation were answered and it returned large trades
Fetched(a) ==
    /\ a.pc = "done"
    /\ a.settled = "fulfilled"
    /\ a.oks = 2
    /\ a.console = <<>>
    /\ a.ret.l # <<>>

\* this step ends a loadData cycle
CycleEnds == app.isLoading /\ ~app'.isLoading

\* C2: a cycle in which every request of the three fetches failed after
\* its retries, so that the merged list is empty, ends with the error view
\* shown, with a message that is not empty, and not with the empty view or
\* the list.
C2_ErrorWhenAllFail ==
    [][(CycleEnds /\ \A s \in Slots : AllRequestsFailed(act'[s])) =>
            /\ app'.transactions = <<>>
            /\ dom'.visible = {"error"}
            /\ dom'.errorMessage # ""]_vars

\* at most one cycle is in flight, and it is while isLoading is set
C5_OneCycle ==
    /\ sys.cycles \in {0, 1}
    /\ app.isLoading <=> sys.cycles = 1
    /\ ~app.isLoading => \A s \in Slots : ~Pending(s)

\* a step taken while a cycle is loading is either no call of loadData, or
\* a call that is ignored and changes nothing
C5_Step ==
    app.isLoading =>
        \/ last' = last
        \/ /\ last'.op = "loadData"
           /\ last'.ret = Ignored
           /\ UNCHANGED <<now, storage, act, log, net, app, dom, sys>>

\* C5: a call of loadData(force) made while a cycle is loading changes no
\* state of the controller or the page, does not clear the cache even with
\* force set, and starts no fetch; so at most one cycle, with its three
\* fetches, is in flight at any time, whatever the order of clicks, timer
\* ticks and network events.
C5_ReentrantCallIsNoOp == []C5_OneCycle /\ [][C5_Step]_vars

\* a forced call was ignored while the cycle had already stored a result
\* and another of its fetches was still pending
C5_Witness ==
    /\ app.isLoading
    /\ sys.cycles = 1
    /\ last = LoadDataCall(TRUE, Ignored)
    /\ storage # EmptyStorage
    /\ \E s \in Slots : Pending(s)

\* the one fetch that returned large trades while the two others failed
OnlyFetched(acts, s) ==
    /\ Fetched(acts[s])
    /\ \A r \in Slots \ {s} : AllRequestsFailed(acts[r])

\* C10: a cycle in which one fetch returned large trades and every request
\* of the two others failed ends not loading and without the error view,
\* with state.transactions exactly the transactions of the asset that
\* succeeded; the list is shown, with these transactions as cards, when
\* currentChain is 'all' or that asset, and the empty view otherwise.
C10_PartialFailure ==
    [][\A s \in Slots :
        (CycleEnds /\ OnlyFetched(act', s)) =>
            /\ app'.transactions = act'[s].ret.l
            /\ app'.lastUpdate = now
            /\ IF app'.currentChain \in {"all", act'[s].chain}
               THEN /\ dom'.visible = {"list"}
                    /\ dom'.cards = Ids(act'[s].ret.l)
               ELSE dom'.visible = {"empty"}]_vars

\* the cycle has ended with the trades of BTC alone, ETH and SOL having
\* failed, and the list is shown
C10_Witness ==
    /\ ~app.isLoading
    /\ sys.phase = "running"
    /\ OnlyFetched(act, 1)
    /\ app.transactions = act[1].ret.l
    /\ app.currentChain = "all"
    /\ dom.visible = {"list"}
    /\ dom.cards = Ids(act[1].ret.l)

\* C10 as first stated: such a cycle ends with the list shown and
\* state.transactions exactly the transactions of the asset that succeeded.
C10_ListShown ==
    [][\A s \in Slots :
        (CycleEnds /\ OnlyFetched(act', s)) =>
            /\ app'.transactions = act'[s].ret.l
            /\ dom'.visible = {"list"}]_vars

\* this step is a call of loadData(true) that was accepted: outside a cycle
\* only a call of loadData starts activations
ForcedCallAccepted ==
    /\ ~app.isLoading
    /\ act' # act
    /\ last' = LoadDataCall(TRUE, Began)

\* C11: a call loadData(true) accepted while not loading empties the cache
\* before the three fetches read it: none of them is answered from an entry
\* written before the cycle, each sends its trades request to the exchange,
\* and the call is left waiting for them with the cache empty.
C11_ForceDefeatsCache ==
    [][ForcedCallAccepted =>
            /\ storage' = EmptyStorage
            /\ app'.isLoading
            /\ \A s \in Slots :
                /\ ~Hit(act'[s])
                /\ act'[s].pc = "fetch"
                /\ act'[s].req = "trades"
                /\ act'[s].fetches = 1]_vars

\* a forced cycle is in flight, every asset at its first request and the
\* cache empty, while the list of the cycle before, whose results were
\* stored and had not expired, is still in place
C11_Witness ==
    /\ app.isLoading
    /\ last = LoadDataCall(TRUE, Began)
    /\ app.transactions # <<>>
    /\ app.lastUpdate = now
    /\ storage = EmptyStorage
    /\ \A s \in Slots : act[s].pc = "fetch" /\ act[s].fetches = 1

---------------------------------------------------------------------------
(* Properties of API.fetch, checked under SpecRetry: every attempt of      *)
(* fetchWithRetry is one call of API.fetch.                                *)

\* the call of API.fetch that has not ended, if there is one
FetchPending(a) == a.pc \in {"fetch", "json"}

\* C12: every call of API.fetch ends in exactly one outcome, its payload or
\* one error, and a call that has not ended has its abort timer armed, also
\* while the body of the response is being read, so that no call stays
\* pending once its timeout has elapsed: the timer ends it with a Timeout.
C12_NoFetchPendingPastTimeout ==
    LET a == act[1]
    IN  a.fn = "retry" =>
            /\ a.fetches = a.oks + Len(log) + (IF FetchPending(a) THEN 1 ELSE 0)
            /\ FetchPending(a) => a.timer

\* the attempts and the delays of a call alternate: a delay only after a
\* failed attempt that is not the last, a success only once and at the end
C13_Alternation ==
    LET a == act[1]
    IN  a.fn = "retry" =>
            /\ a.delays = IF a.pc = "delay" THEN a.fetches ELSE a.fetches - 1
            /\ a.pc = "delay" => (a.fetches < a.arg /\ Len(log) = a.fetches /\ a.oks = 0)
            /\ a.oks = IF a.settled = "fulfilled" THEN 1 ELSE 0
            /\ a.settled = "fulfilled" =>
                /\ a.pc = "done"
                /\ a.fetches = Len(log) + 1
                /\ a.fetches <= (IF a.arg < 1 THEN 1 ELSE a.arg)
                /\ a.delays = a.fetches - 1
                /\ ~ENABLED Network(1)

\* a failed attempt that is not the last is followed by a delay, whatever
\* its error, and the call fulfils with the payload of the attempt whose
\* body has just arrived
C13_Step ==
    LET a == act[1]
        b == act'[1]
    IN  (a.fn = "retry" /\ b.fn = "retry") =>
            /\ (Len(log') = Len(log) + 1 /\ a.fetches < a.arg) =>
                    (b.pc = "delay" /\ b.settled = "pending" /\ b.fetches = a.fetches)
            /\ (a.pc = "delay" /\ b.pc # "delay") =>
                    (b.pc = "fetch" /\ b.fetches = a.fetches + 1 /\ b.delays = a.delays)
            /\ (a.settled # "fulfilled" /\ b.settled = "fulfilled") =>
                    (a.pc = "json" /\ b.ret \in Payloads(a) /\ b.fetches = a.fetches)

\* C13: fetchWithRetry retries after every kind of failure of fetch and
\* stops at the first success: when attempt k <= attempts is the first to
\* succeed, the call fulfils with the payload of that attempt after exactly
\* k fetches and k - 1 delays, every delay lying between two attempts, and
\* no delay follows the last attempt, failed or not.
C13_RetryUntilFirstSuccess == []C13_Alternation /\ [][C13_Step]_vars

\* the third of three attempts succeeded, after a timeout and a body that
\* was no JSON, with two delays
C13_Witness ==
    /\ act[1].fn = "retry"
    /\ act[1].arg = 3
    /\ act[1].settled = "fulfilled"
    /\ act[1].fetches = 3
    /\ act[1].delays = 2
    /\ log = <<ErrTimeout, ErrParse>>
    /\ act[1].ret.t = "list"

\* the larger of 1 and n
AtLeastOne(n) == IF n < 1 THEN 1 ELSE n

\* a call has made at least one fetch and at most max(1, attempts); the
\* count it carries is the one it was called with less the retries made,
\* and it waits for a retry only with a count of 2 or more
C29_Bounded ==
    LET a == act[1]
    IN  a.fn = "retry" =>
            /\ a.fetches >= 1
            /\ a.fetches <= AtLeastOne(a.arg)
            /\ a.attempts = a.arg - (a.fetches - 1)
            /\ a.pc = "delay" => a.attempts >= 2
            /\ a.pc = "done" => ~ENABLED Network(1)

\* a retry lowers the count by one, and a failed attempt with a count of
\* 1 or less ends the call
C29_Step ==
    LET a == act[1]
        b == act'[1]
    IN  (a.fn = "retry" /\ b.fn = "retry" /\ b.arg = a.arg /\ log' # <<>>) =>
            /\ b.fetches > a.fetches => (a.pc = "delay" /\ b.attempts = a.attempts - 1)
            /\ (Len(log') > Len(log) /\ a.attempts <= 1) => b.settled = "rejected"

\* C29: for every integer attempts, 0 and negative values included,
\* fetchWithRetry makes at least one fetch and at most max(1, attempts);
\* each retry lowers the count by exactly one and is made only while the
\* count is above 1, so the call ends after finitely many attempts.
C29_AttemptsBounded == []C29_Bounded /\ [][C29_Step]_vars

\* a call with attempts = -1 has made its one fetch, which failed, and
\* has rejected without a delay
C29_Witness ==
    /\ act[1].fn = "retry"
    /\ act[1].arg = -1
    /\ act[1].settled = "rejected"
    /\ act[1].fetches = 1
    /\ act[1].delays = 0
    /\ Len(log) = 1


---------------------------------------------------------------------------
(* More properties of the cache, checked under SpecCache.                  *)

\* in the cache as it is now, whatever it holds: a set at this instant,
\* then a get of the key d ms later, nothing else having touched the key
SetThenGet(key, value, ttl, d) ==
    Cache_get(Cache_set(storage, key, value, ttl, now), key, now + d)

\* a set followed by a get returns the value up to ttl ms later and absent
\* from ttl + 1 ms on, whether or not the key was stored before
C14_RoundTrip ==
    \A key \in CacheKeys, value \in CacheValues, ttl \in CacheTTLs \cup {1000, DefaultTTL} :
        /\ \A d \in {0, ttl} :
            /\ SetThenGet(key, value, ttl, d).ret = value
            /\ HasKey(SetThenGet(key, value, ttl, d).storage, key)
        /\ SetThenGet(key, value, ttl, ttl + 1).ret = Null
        /\ ~HasKey(SetThenGet(key, value, ttl, ttl + 1).storage, key)
        /\ Cache_setDefault(storage, key, value, now)
                = Cache_set(storage, key, value, 300000, now)

\* the entry of key k is the same before and after the step
Kept(k) == HasKey(storage', k) /\ storage'[k] = storage[k]

\* a set puts the value and the expiry now + ttl under its key, whatever
\* was there, and touches no other key; an entry stays as it is until a
\* set or delete of its key, a clear, or a read of it after its expiry
C14_Step ==
    /\ last'.op \in {"set", "set()"} =>
        LET ttl == IF last'.op = "set" THEN last'.stats[1] ELSE 300000
        IN  /\ DOMAIN storage' = DOMAIN storage \cup {last'.key}
            /\ storage'[last'.key] = [value |-> last'.ret, expiry |-> now + ttl]
            /\ \A k \in DOMAIN storage \ {last'.key} : Kept(k)
    /\ \A k \in DOMAIN storage :
        \/ Kept(k)
        \/ last'.op \in {"set", "set()", "delete"} /\ last'.key = k
        \/ last'.op = "clear"
        \/ last'.op \in Reads /\ last'.key = k /\ now > storage[k].expiry

\* C14: set(key, value, ttl) at time t makes get(key) return value at every
\* time from t to t + ttl, as long as no set, delete or clear touches the
\* key, and absent at t + ttl + 1; a set on a key that is already stored,
\* expired or not, replaces the value and the expiry whatever they were,
\* also by an earlier expiry; a set without ttl expires 5 minutes later.
C14_SetThenGetWithinTTL == []C14_RoundTrip /\ [][C14_Step]_vars

\* set(k, 42, 1) is the latest call, made after time 0, and k expires 1 ms
\* from now, while j, set without ttl at time 0, expires at 300000
C14_Witness ==
    /\ last = SetCall("k", Num(42), 1)
    /\ now > 0
    /\ storage["k"] = [value |-> Num(42), expiry |-> now + 1]
    /\ HasKey(storage, "j")
    /\ storage["j"].expiry = 300000

\* the key is stored and its entry has not expired
Live(st, key, t) == HasKey(st, key) /\ t <= st[key].expiry

\* C15: has(key) returns true exactly when an entry of the key is stored
\* and has not expired, whatever value is stored, and false otherwise; on
\* an expired entry it removes the entry, and on a live or unknown key it
\* leaves the storage as it is.
C15_HasIffLive ==
    [][last'.op \in {"has:true", "has:false"} =>
            LET k == last'.key
            IN  /\ (last'.op = "has:true") <=> Live(storage, k, now)
                /\ IF HasKey(storage, k) /\ ~Live(storage, k, now)
                   THEN /\ DOMAIN storage' = DOMAIN storage \ {k}
                        /\ \A j \in DOMAIN storage' : storage'[j] = storage[j]
                   ELSE storage' = storage]_vars

\* C16: getStats returns total = the number of stored entries, valid = the
\* number of them with now <= expiry and expired = the number with
\* now > expiry, so that total = valid + expired, and leaves the storage
\* as it is: an expired entry that is not read stays stored and counted.
C16_StatsCountWithoutPurge ==
    [][last'.op = "getStats" =>
            /\ last'.stats[1] = Cardinality(DOMAIN storage)
            /\ last'.stats[2] = Cardinality({k \in DOMAIN storage : now <= storage[k].expiry})
            /\ last'.stats[3] = Cardinality({k \in DOMAIN storage : now > storage[k].expiry})
            /\ last'.stats[1] = last'.stats[2] + last'.stats[3]
            /\ storage' = storage]_vars

\* getStats has counted two entries, one at its expiry instant as valid and
\* one past its expiry as expired, and both are still stored
C16_Witness ==
    /\ last.op = "getStats"
    /\ last.stats = <<2, 1, 1>>
    /\ DOMAIN storage = {"k", "j"}
    /\ storage["k"].expiry = now
    /\ storage["j"].expiry < now

\* in the cache as it is now: after delete(k) a get of k returns absent and
\* every other entry is as it was, a delete of a key that is not stored
\* changes nothing, and after clear() a get of any key returns absent and
\* getStats counts nothing
C17_DeleteAndClear ==
    /\ \A k \in CacheKeys :
        LET st == Cache_delete(storage, k)
        IN  /\ Cache_get(st, k, now).ret = Null
            /\ DOMAIN st = DOMAIN storage \ {k}
            /\ \A j \in DOMAIN st : st[j] = storage[j]
            /\ ~HasKey(storage, k) => st = storage
    /\ \A k \in CacheKeys : Cache_get(Cache_clear(storage), k, now).ret = Null
    /\ Cache_getStats(Cache_clear(storage), now) = <<0, 0, 0>>

\* a delete removes its key alone and a clear removes all; a key that is
\* not stored stays so, and get returns absent for it, until a set of it
C17_Step ==
    /\ last'.op = "delete" =>
            /\ DOMAIN storage' = DOMAIN storage \ {last'.key}
            /\ \A j \in DOMAIN storage' : storage'[j] = storage[j]
    /\ last'.op = "clear" => storage' = EmptyStorage
    /\ \A k \in CacheKeys \ DOMAIN storage :
        /\ HasKey(storage', k) => (last'.op \in {"set", "set()"} /\ last'.key = k)
        /\ (last'.op = "get" /\ last'.key = k) => last'.ret = Null
        /\ (last'.op \in {"has:true", "has:false"} /\ last'.key = k) => last'.op = "has:false"

\* C17: after delete(k), get(k) returns absent until the next set of k, and
\* the entry of every other key, value and expiry, is unchanged; after
\* clear(), get returns absent for every key and getStats reports total 0;
\* delete of a key that is not stored changes nothing.
C17_DeleteClearFrame == []C17_DeleteAndClear /\ [][C17_Step]_vars

\* delete(k) is the latest call: k is gone while the live entry of j, with
\* its value 42, is still there
C17_Witness ==
    /\ last.op = "delete"
    /\ last.key = "k"
    /\ ~HasKey(storage, "k")
    /\ Live(storage, "j", now)
    /\ storage["j"].value = Num(42)
    /\ now > 0

\* in the cache as it is now: a get or a has of a live entry leaves the
\* storage as it is, and after any number of such reads a get of the key
\* at a later instant still returns the value up to the expiry the entry
\* had, and absent after it
C28_ReadsDoNotRenew ==
    \A k \in CacheKeys :
        Live(storage, k, now) =>
            LET once == Cache_get(storage, k, now).storage
                twice == Cache_has(once, k, now).storage
            IN  /\ once = storage
                /\ twice = storage
                /\ \A t \in now..(MaxTime + MaxTTL + 1) :
                    /\ Cache_get(twice, k, t).ret
                            = (IF t <= storage[k].expiry THEN storage[k].value ELSE Null)
                    /\ t > storage[k].expiry => ~Cache_has(twice, k, t).ret

\* a read of a live entry changes nothing, and the expiry of an entry
\* changes only in a set of its key
C28_Step ==
    /\ (last'.op \in Reads /\ Live(storage, last'.key, now)) => storage' = storage
    /\ \A k \in DOMAIN storage \cap DOMAIN storage' :
        storage'[k].expiry # storage[k].expiry =>
            (last'.op \in {"set", "set()"} /\ last'.key = k)
    /\ \A k \in DOMAIN storage :
        (last'.op \in Reads /\ last'.key = k /\ now > storage[k].expiry) =>
            /\ last'.op \in {"get", "has:false"}
            /\ last'.ret = Null
            /\ ~HasKey(storage', k)

\* C28: get and has on an entry that has not expired leave the whole
\* storage as it is, the expiry of the entry included: no read extends or
\* resets it, so that the entry is absent at every read after its expiry,
\* however many reads there were before.
C28_NoSlidingExpiration == []C28_ReadsDoNotRenew /\ [][C28_Step]_vars

\* has(j) has just returned true at the very instant j expires, at a later
\* time than 0, and j is stored with the same expiry
C28_Witness ==
    /\ last.op = "has:true"
    /\ last.key = "j"
    /\ now = MaxTime
    /\ HasKey(storage, "j")
    /\ storage["j"] = [value |-> Num(42), expiry |-> now]


---------------------------------------------------------------------------
(* More properties of processTrades, checked under SpecTrades.             *)

\* the record does not parse: it is null, or its price, qty or quoteQty is
\* missing or no number
Malformed(trade) ==
    \/ trade.isNull
    \/ parseFloat(trade.price).t # "num"
    \/ parseFloat(trade.qty).t # "num"
    \/ parseFloat(trade.quoteQty).t # "num"

\* C18: a raw trade that does not parse (null, or price, qty or quoteQty
\* missing or no number) yields no transaction and no error, and every
\* other record of the list is processed as usual: none below 100000,
\* exactly one from 100000 on.
C18_MalformedDropped ==
    LET a == act[1]
        raw == a.held.l
        out == a.ret.l
    IN  a.pc = "processed" =>
            /\ a.ret.t = "list"
            /\ \A i \in 1..Len(raw) :
                IF Malformed(raw[i]) THEN Yield(out, a.chain, raw[i]) = 0
                ELSE Yield(out, a.chain, raw[i]) = (IF Quote(raw[i]).n < 100000 THEN 0 ELSE 1)

\* the raw trades of the list that are objects
Records(raw) == {i \in 1..Len(raw) : ~raw[i].isNull}

\* x is the transaction of the raw trade: the identifier made of the asset
\* and the trade's id, the amounts as parsed, no fee, and the labels by
\* the buyer-is-maker flag
BuiltFrom(x, chain, trade) ==
    /\ x.id = "binance_" \o chain \o "_" \o ToString(trade.id)
    /\ x.hash = x.id
    /\ x.feeNative = 0
    /\ x.feeUsd = 0
    /\ x.isExchangeTrade
    /\ x.amountUsd = parseFloat(trade.quoteQty)
    /\ x.amountNative = parseFloat(trade.qty)
    /\ <<x.from, x.to>> = IF trade.isBuyerMaker THEN <<"Binance Seller", "Binance Buyer">>
                          ELSE <<"Binance Buyer", "Binance Seller">>

\* C23: every transaction of processTrades's result, and of the sorted and
\* truncated list, is built from one raw trade of the response: id = hash =
\* 'binance_' + asset + '_' + the trade's id, both fees 0, isExchangeTrade
\* set, amountUsd the quote value and amountNative the quantity, from and to
\* ('Binance Seller', 'Binance Buyer') when the buyer is the maker and
\* ('Binance Buyer', 'Binance Seller') otherwise, so that they differ; and
\* the transactions of two raw trades of the response have different ids.
C23_TransactionFields ==
    LET a == act[1]
        raw == a.held.l
        out == a.ret.l
    IN  a.pc \in {"processed", "sorted"} =>
            /\ \A j \in 1..Len(out) :
                /\ \E i \in Records(raw) : BuiltFrom(out[j], a.chain, raw[i])
                /\ out[j].from # out[j].to
                /\ {out[j].from, out[j].to} = {"Binance Seller", "Binance Buyer"}
            /\ \A j, k \in 1..Len(out) : j # k => out[j].id # out[k].id
            /\ \A i, k \in Records(raw) :
                i # k => Transaction(a.chain, raw[i]).id # Transaction(a.chain, raw[k]).id

\* three large trades of SOL, the first sold into a resting buy order and
\* the second bought from a resting sell order, have become transactions
C23_Witness ==
    /\ act[1].pc = "processed"
    /\ act[1].chain = "sol"
    /\ Len(act[1].ret.l) = 3
    /\ act[1].ret.l[1].id = "binance_sol_1"
    /\ act[1].ret.l[1].from = "Binance Seller"
    /\ act[1].ret.l[2].id = "binance_sol_2"
    /\ act[1].ret.l[2].from = "Binance Buyer"
    /\ act[1].ret.l[3].amountUsd = Num(150000)


---------------------------------------------------------------------------
(* More properties of the adapter, checked under SpecBinance.              *)

\* this step is a call of getLargeTransactions
CallsTransactions == sys'.started # sys.started /\ act'[1].fn = "txs"

\* no list is ever stored for an asset the adapter does not support
C24_NothingStored ==
    \A k \in DOMAIN storage :
        \A chain \in CallChains \ Chains, limit \in CallLimits : k # TxCacheKey(chain, limit)

\* a call for an unsupported asset has returned [] in the step of the call
C24_Step ==
    (CallsTransactions /\ act'[1].chain \notin Chains) =>
        /\ act'[1].pc = "done"
        /\ act'[1].settled = "fulfilled"
        /\ act'[1].ret = Arr(<<>>)
        /\ act'[1].fetches = 0
        /\ act'[1].timer = FALSE
        /\ storage' = storage

ReturnsAfterTradesFailed ==
    /\ act[1].fn = "txs"
    /\ act[1].pc # "done"
    /\ act'[1].pc = "done"
    /\ "callAPI trades" \in Catches(act'[1])

\* a call whose trades request failed returns [] and, unless it ended in
\* its catch, stores [] under its key for 60 s; a call that finds a stored
\* empty list that has not expired returns it without a request, and one
\* that finds it expired sends the trades request again
C25_Step ==
    LET b == act'[1]
        key == TxCacheKey(b.chain, b.limit)
    IN  /\ ReturnsAfterTradesFailed =>
            /\ b.settled = "fulfilled"
            /\ b.ret = Arr(<<>>)
            /\ IF "getLargeTransactions" \in Catches(b) THEN storage' = storage
               ELSE /\ HasKey(storage', key)
                    /\ storage'[key] = [value |-> Arr(<<>>), expiry |-> now + 60000]
        /\ (CallsTransactions /\ HasKey(storage, key) /\ storage[key].value = Arr(<<>>)) =>
            IF now <= storage[key].expiry
            THEN /\ b.pc = "done"
                 /\ b.ret = Arr(<<>>)
                 /\ b.fetches = 0
                 /\ b.console = <<>>
                 /\ storage' = storage
            ELSE /\ b.pc = "fetch"
                 /\ b.req = "trades"
                 /\ b.fetches = 1
                 /\ ~HasKey(storage', key)

\* C25: when the trades request of getLargeTransactions has failed after
\* all its retries, the call returns the empty list, and when it ends
\* without an exception (the price request failed as well, or was answered
\* with an object) the empty list is stored under the key of (asset, limit)
\* for 60 s like a successful result; a following call for the key up to
\* the expiry returns the empty list without a request, and a call after
\* the expiry sends the trades request again. When the price request is
\* answered with null the call ends in its catch and stores nothing.
C25_FailureIsCached == [][C25_Step]_vars

\* a second call for (btc, 1), made at the very instant of expiry of the
\* empty list a failed first call had stored, has returned it without a
\* request
C25_Witness ==
    /\ act[1].fn = "txs"
    /\ act[1].chain = "btc"
    /\ act[1].limit = 1
    /\ act[1].pc = "done"
    /\ Hit(act[1])
    /\ act[1].ret = Arr(<<>>)
    /\ sys.started = 2
    /\ now = CacheTTL
    /\ storage[TxCacheKey("btc", 1)] = [value |-> Arr(<<>>), expiry |-> CacheTTL]

\* C25 as first stated: whenever the trades request has failed after all
\* its retries, the empty list is stored under the key, to expire within
\* 60 s.
C25_AlwaysStored ==
    LET a == act[1]
        key == TxCacheKey(a.chain, a.limit)
    IN  (a.fn = "txs" /\ a.pc = "done" /\ "callAPI trades" \in Catches(a)) =>
            /\ HasKey(storage, key)
            /\ storage[key].value = Arr(<<>>)
            /\ storage[key].expiry <= now + CacheTTL


---------------------------------------------------------------------------
(* The requests of one call of the adapter, checked under SpecBinance.     *)

\* the fetches activation a has made for the request it is waiting on
Attempted(a) == RetryAttempts - a.attempts + 1

\* a call of getLargeTransactions for a pair the adapter knows that was
\* not answered from the cache
Missed(a) == a.fn = "txs" /\ symbols(a.chain) # "" /\ ~Hit(a)

C32_Requests ==
    /\ act[1].fetches + act[2].fetches + act[3].fetches <= 3 * 2 * RetryAttempts
    /\ \A s \in Slots :
            LET a == act[s]
            IN  a.fn = "txs" =>
                    \* waiting on the trades request: nothing was sent before it
                    /\ a.req = "trades" =>
                        /\ a.attempts \in 1..RetryAttempts
                        /\ a.fetches = Attempted(a)
                        /\ a.console = <<>>
                    \* waiting on the price request: the trades request took
                    \* one to three fetches, three when it failed
                    /\ a.req = "ticker" =>
                        /\ a.attempts \in 1..RetryAttempts
                        /\ a.fetches - Attempted(a) \in 1..RetryAttempts
                        /\ "callAPI trades" \in Catches(a) => a.fetches - Attempted(a) = RetryAttempts
                    /\ (a.pc = "done" /\ Missed(a)) =>
                        /\ a.fetches \in 2..(2 * RetryAttempts)
                        /\ "callAPI trades" \in Catches(a) => a.fetches > RetryAttempts
                        /\ a.console = <<"callAPI trades", "callAPI ticker">> =>
                                a.fetches = 2 * RetryAttempts
                    /\ a.fetches <= 2 * RetryAttempts

C32_Step ==
    \A s \in Slots :
        LET a == act[s]
            b == act'[s]
        IN  /\ (a.fn = "txs" /\ a.req = "trades" /\ b # a) =>
                \* the call does not return from its trades request: the
                \* response is read, or the request is retried, or the
                \* price request is sent
                /\ b.fn = "txs"
                /\ b.pc \in {"json", "delay", "fetch"}
                /\ b.req = "ticker" =>
                    \* the trades request has settled in this step: its
                    \* body has arrived, or its last attempt has failed
                    /\ "callAPI trades" \in Catches(b) => GiveUp(a.attempts)
                    /\ "callAPI trades" \notin Catches(b) =>
                            (a.pc = "json" /\ b.oks = a.oks + 1)
                    /\ b.pc = "fetch"
                    /\ b.attempts = RetryAttempts
                    /\ b.fetches = a.fetches + 1
            \* the price request is never the first
            /\ (b.fn = "txs" /\ b.req = "ticker" /\ b.fetches > a.fetches) =>
                    a.fn = "txs" /\ a.req \in {"trades", "ticker"}
            \* the price request has failed on its last attempt after the
            \* trades request had succeeded: the call returns the list a
            \* price would have given
            /\ (a.fn = "txs" /\ a.req = "ticker" /\ b.pc = "done"
                    /\ Catches(b) = {"callAPI ticker"}) =>
                    \E f \in FinishTransactions(a, Obj(Ticker), storage, now) :
                        /\ f.act.ret = b.ret
                        /\ f.storage = storage'

---------------------------------------------------------------------------
(* More properties of the page, checked under Spec.                        *)

\* the results of the three fetches, BTC then ETH then SOL
InAssetOrder(acts) == acts[1].ret.l \o acts[2].ret.l \o acts[3].ret.l

\* C19: state.transactions changes only in the step in which the last of
\* the three fetches of a cycle has settled, and that step, like every step
\* that ends a cycle, leaves it equal to the BTC result followed by the ETH
\* result followed by the SOL result, in whatever order the fetches
\* settled; no step shows a list merged in part, and while a cycle is
\* loading the list of the cycle before stays in place.
C19_MergeIsAtomic ==
    [][/\ (app'.transactions # app.transactions \/ CycleEnds) =>
            /\ ~app'.isLoading
            /\ AllSettled(act')
            /\ \A s \in Slots : act'[s].settled = "fulfilled"
            /\ app'.transactions = InAssetOrder(act')
       /\ app'.isLoading => app'.transactions = app.transactions]_vars

\* a cycle that went to the exchange has ended with one large trade of each
\* asset, merged in the order BTC, ETH, SOL
C19_Witness ==
    /\ ~app.isLoading
    /\ last = LoadDataCall(TRUE, Began)
    /\ \A s \in Slots : act[s].fetches = 2 /\ act[s].oks = 2
    /\ Len(app.transactions) = 3
    /\ app.transactions[1].chain = "btc"
    /\ app.transactions[2].chain = "eth"
    /\ app.transactions[3].chain = "sol"

\* C27: whenever isLoading is set the page shows the loading view and no
\* other: no step taken while a cycle is in flight, be it a chain button, a
\* call of loadData that is ignored or a timer tick, puts the list, the
\* empty view or the error view in its place before the cycle ends.
C27_LoadingViewWhileLoading == app.isLoading => dom.visible = {"loading"}


---------------------------------------------------------------------------
(* A property of the page checked under FairLoad.                          *)

\* C26: every loadData cycle that has started ends, with isLoading reset,
\* provided every request settles and every retry delay ends; so the
\* controller never stays in loading, and a later call of loadData is
\* accepted again.
C26_CycleEnds == app.isLoading ~> ~app.isLoading

\* a forced cycle has ended although every request for BTC failed after
\* its retries, and a call of loadData made while it was loading had been
\* ignored
C26_Witness ==
    /\ ~app.isLoading
    /\ sys.phase = "running"
    /\ AllRequestsFailed(act[1])
    /\ Fetched(act[2])
    /\ last = LoadDataCall(TRUE, Ignored)
    /\ storage # EmptyStorage

---------------------------------------------------------------------------
(* A property of state.lastUpdate, checked under SpecClock.                *)

\* this step is a call of loadData: outside a cycle nothing else moves the
\* page while the clock stands; inside one, only a call changes the record
\* of the latest call
CallAccepted == ~app.isLoading /\ now' = now /\ last'.op = "loadData"
CallRejected == app.isLoading /\ last' # last /\ last'.op = "loadData"

C31_Step ==
    \* the cycle ends in this step, the last fetch having settled
    /\ CycleEnds => (AllSettled(act') /\ app'.lastUpdate = now /\ now' = now)
    \* an accepted call either waits for its fetches or, all three answered
    \* from the cache, is a whole cycle
    /\ CallAccepted =>
        /\ last'.ret = Began
        /\ app'.isLoading \/ (AllSettled(act') /\ app'.lastUpdate = now)
    /\ CallRejected =>
        /\ last'.ret = Ignored
        /\ app'.lastUpdate = app.lastUpdate
    \* nothing else changes it
    /\ app'.lastUpdate # app.lastUpdate => (CycleEnds \/ (CallAccepted /\ ~app'.isLoading))
    /\ app'.lastUpdate >= app.lastUpdate

\* C31: state.lastUpdate is set to the current time at the end of every
\* loadData cycle whose three fetches settled, also when every fetch failed
\* and when every result came from the cache without a request; a call of
\* loadData ignored by the guard does not change it, nothing but the end of
\* a cycle changes it, it never decreases and is never later than the
\* clock.
C31_LastUpdate == [](app.lastUpdate <= now) /\ [][C31_Step]_vars

\* a second cycle, a minute after the first, was answered entirely from
\* the cache, which held the empty lists of three fetches that had failed,
\* and moved lastUpdate to the minute
C31_Witness ==
    /\ ~app.isLoading
    /\ now = CacheTTL
    /\ app.lastUpdate = CacheTTL
    /\ last = LoadDataCall(FALSE, Began)
    /\ app.transactions = <<>>
    /\ \A c \in Chains : net[c] = "down"
    /\ \A s \in Slots : Hit(act[s])

---------------------------------------------------------------------------
(* The view driven directly: chain and sort buttons and card clicks on a   *)
(* page that holds the merged list of a finished cycle.                    *)

\* the raw trades of an asset behind the lists the page can hold: none;
\* two whose order by amount is the reverse of their order by time, and
\* which tie with those of another asset; one alone; and, for BTC, one
\* without its quoteQty
ViewFeeds(chain) ==
    {<<>>}
    \cup (IF chain = "sol" THEN {<<Trade(1, Str(DecimalText(150000)), TRUE)>>}
          ELSE {<<Trade(1, Str(DecimalText(150000)), TRUE),
                  Trade(2, Str(DecimalText(100000)), FALSE)>>})
    \cup (IF chain = "btc" THEN {<<Trade(1, Missing, FALSE)>>} ELSE {})

\* the lists getLargeTransactions(chain, 20) can return for these trades
ViewResults(chain) ==
    UNION {{slice(sorted, DefaultLimit) : sorted \in sort(processTrades(chain, Arr(l)))} :
            l \in ViewFeeds(chain)}

Sorts == {"amount", "time"}

\* the page after a cycle has ended with the results btc, eth and sol
InitView ==
    /\ now = 0
    /\ storage = EmptyStorage
    /\ last = Called("none", "", Null, NoStats)
    /\ act = NoActivations
    /\ log = <<>>
    /\ net = Flaky
    /\ sys = startAutoRefresh(NotStarted, now)
    /\ \E btc \in ViewResults("btc"), eth \in ViewResults("eth"), sol \in ViewResults("sol") :
        app = [AppState EXCEPT !.transactions = btc \o eth \o sol, !.lastUpdate = now]
    /\ dom \in renderTransactions(app, updateLastUpdateTime(app, showLoading(NoPage), now))

setSort(order) ==
    /\ sys.phase # "new"
    /\ LET a1 == [app EXCEPT !.currentSort = order]
       IN  /\ app' = a1
           /\ dom' \in renderTransactions(a1, dom)
    /\ UNCHANGED <<now, storage, last, netVars, sys>>

\* a click on the card of transaction txId, which the page shows
toggleExpand(txId) ==
    /\ "list" \in dom.visible
    /\ \E i \in 1..Len(dom.cards) : dom.cards[i] = txId
    /\ LET a1 == [app EXCEPT !.expandedTxId = IF @ = txId THEN "" ELSE txId]
       IN  /\ app' = a1
           /\ dom' \in renderTransactions(a1, dom)
    /\ UNCHANGED <<now, storage, last, netVars, sys>>

CardIds == {Transaction(chain, Trade(id, Missing, FALSE)).id : chain \in Chains, id \in 1..2}

NextView ==
    \/ \E chain \in Chains \cup {"all"} : setChain(chain)
    \/ \E order \in Sorts : setSort(order)
    \/ \E txId \in CardIds : toggleExpand(txId)

SpecView == InitView /\ [][NextView]_vars

---------------------------------------------------------------------------
(* Properties of the view, checked under SpecView.                         *)

\* the stored transactions the page is to show
Selection(a) ==
    LET OfChain(x) == x.chain = a.currentChain
    IN  IF a.currentChain = "all" THEN a.transactions ELSE SelectSeq(a.transactions, OfChain)

\* the stored transaction behind a card
Behind(a, id) == CHOOSE x \in {a.transactions[k] : k \in 1..Len(a.transactions)} : x.id = id

\* the page shows the selection: the empty view exactly when it is empty,
\* and otherwise one card for each of its transactions, by amountUsd
\* descending when the sort is 'amount' (and the amounts are numbers), by
\* timestamp descending otherwise
C20_View ==
    LET sel == Selection(app)
        cards == dom.cards
    IN  IF sel = <<>> THEN dom.visible = {"empty"}
        ELSE /\ dom.visible = {"list"}
             /\ Len(cards) = Len(sel)
             /\ \A k \in 1..Len(sel) : \E i \in 1..Len(cards) : cards[i] = sel[k].id
             /\ \A i, j \in 1..Len(cards) :
                i < j =>
                    /\ (app.currentSort = "amount" /\ Numeric(sel)) =>
                            Behind(app, cards[i]).amountUsd.n >= Behind(app, cards[j]).amountUsd.n
                    /\ app.currentSort # "amount" =>
                            Behind(app, cards[i]).timestamp >= Behind(app, cards[j]).timestamp

---------------------------------------------------------------------------
(* The whole page: the loadData cycles with the chain and sort buttons and *)
(* the card clicks in between.                                             *)

NextPage ==
    \/ NextLoad
    \/ \E chain \in Chains \cup {"all"} : setChain(chain)
    \/ \E order \in Sorts : setSort(order)
    \/ \E txId \in CardIds : toggleExpand(txId)

SpecPage == InitTimers /\ [][NextPage]_vars

---------------------------------------------------------------------------
(* A property of the views, checked under SpecPage.                        *)

TheViews == {"loading", "list", "error", "empty"}

\* C30: once init has called loadData, and with it showLoading, exactly
\* one of the four views (loading, list, error, empty) is visible in every
\* state, whatever the order of loadData calls, chain and sort buttons,
\* card clicks, timer ticks and network events; and from the page as it
\* is, each of showLoading, showTransactions, showError and showEmpty
\* leaves its own view visible and no other.
C30_OneViewVisible ==
    /\ dom.visible \subseteq TheViews
    /\ sys.phase = "new" => dom.visible = {}
    /\ sys.phase # "new" =>
        /\ Cardinality(dom.visible) = 1
        /\ showLoading(dom).visible = {"loading"}
        /\ showTransactions(dom).visible = {"list"}
        /\ showError(dom, "HTTP 500").visible = {"error"}
        /\ showEmpty(dom).visible = {"empty"}

\* a forced cycle is loading and the sort button has put the list of the
\* cycle before, of ETH by time with a card expanded, in place of the
\* loading view: the list alone is visible
C30_Witness ==
    /\ app.isLoading
    /\ last = LoadDataCall(TRUE, Began)
    /\ app.currentChain = "eth"
    /\ app.currentSort = "time"
    /\ app.expandedTxId = "binance_eth_1"
    /\ dom.visible = {"list"}
    /\ dom.cards = <<"binance_eth_1">>

=============================================================================
